---- MODULE Spec2Model ----
(***************************************************************************)
(* Model of the block importer: Import (importer/import.go) driving the    *)
(* MultiWriter coordinator (importer/blocks/multi.go), which routes        *)
(* samples to per-range TSDBWriter builders (importer/blocks/writer.go).   *)
(***************************************************************************)
EXTENDS Integers, Sequences, FiniteSets, Bags, TLC

(* ---------------------------- bounds ---------------------------------- *)
Width == 2                      \* MultiWriter.sizeMillis of the modelled instance
MaxTs == 2                      \* timestamps are -1..MaxTs
MaxEntries == 2                 \* entries the parser yields before end of stream
MaxOps == 3                     \* coordinator calls made by a direct caller

Timestamps == (-1)..MaxTs
Refs == {0, 1}
LabelSets == {"a", "b"}
Values == {1}

VARIABLES
    blocks,             \* MultiWriter.blocks: index.Range -> writer (index into writers)
    activeAppenders,    \* MultiWriter.activeAppenders: index.Range -> appender handle
    writers,            \* the TSDBWriter objects created so far, in creation order
    disk,               \* blocks written under the output directory
    pc,                 \* position of Import ("api": the coordinator is driven directly)
    ref,                \* Import's local  ref storage.SeriesRef
    err,                \* Import's named result err
    ids,                \* Import's named result ids
    fed,                \* bag of samples the source yielded as series entries with a timestamp
    nRead,              \* entries read from the parser / calls made by the direct caller
    routed,             \* the last two timestamps routed by getOrCreate, with their range keys
    trace,              \* what Import has met and called so far, in order
    lastOp              \* the last coordinator call and what it did

vars == <<blocks, activeAppenders, writers, disk, pc, ref, err, ids, fed, nRead, routed, trace,
          lastOp>>

(* ---------------------------- errors ---------------------------------- *)
\* An error value is the set of the leaf errors it carries, each with the
\* chain of errors.Wrap messages around it; nil is the empty set.
Nil == {}

NewErr(op, w) == {[op |-> op, w |-> w, ctx |-> <<>>]}

\* errors.Wrap: nil stays nil, otherwise the message is put in front.
Wrap(e, msg) == {[x EXCEPT !.ctx = <<msg>> \o x.ctx] : x \in e}

\* tsdb_errors.NewMulti().Add(e): a nil error is ignored.
MultiAdd(merr, e) == merr \cup e

\* The leaf errors inside e, whatever wraps them.
Causes(e) == {[op |-> x.op, w |-> x.w] : x \in e}

(* ---------------------------- ranges ---------------------------------- *)
\* Go's integer division truncates toward zero.
GoDiv(a, b) == IF a >= 0 THEN a \div b ELSE -((-a) \div b)

rangeForTimestamp(t, width) == GoDiv(t, width) * width + width

\* index.Range{Start: maxt - w.sizeMillis, End: maxt}
RangeKey(t) ==
    LET maxt == rangeForTimestamp(t, Width)
    IN  [Start |-> maxt - Width, End |-> maxt]

(* ---------------------------- TSDBWriter ------------------------------ *)
\* A writer's head: series in creation order (a series reference is the
\* position), samples appended but not committed, samples committed.
NewTSDBWriter ==
    [series |-> <<>>, pending |-> EmptyBag, committed |-> EmptyBag,
     flushCalls |-> 0, closeCalls |-> 0]

SeriesIndex(series, l) ==
    IF \E i \in 1..Len(series) : series[i] = l
    THEN CHOOSE i \in 1..Len(series) : series[i] = l
    ELSE Len(series) + 1

\* head appender Append(ref, l, t, v): a reference the head knows selects the
\* series; otherwise the series is looked up or created by its labels.
HeadAppend(wr, r, l, t, v, ok) ==
    IF ~ok THEN [wr |-> wr, ref |-> 0, failed |-> TRUE]
    ELSE LET s  == IF r \in 1..Len(wr.series) THEN r ELSE SeriesIndex(wr.series, l)
             ss == IF s > Len(wr.series) THEN Append(wr.series, l) ELSE wr.series
         IN  [wr |-> [wr EXCEPT !.series = ss,
                                !.pending = @ (+) SetToBag({<<ss[s], t, v>>})],
              ref |-> s, failed |-> FALSE]

\* head appender Commit: pending samples enter the head; a failed commit
\* rolls them back.
HeadCommit(wr, ok) ==
    [wr EXCEPT !.committed = IF ok THEN @ (+) wr.pending ELSE @,
               !.pending = EmptyBag]

HeadRollback(wr) == [wr EXCEPT !.pending = EmptyBag]

\* TSDBWriter.Flush: a head without series is refused; otherwise the head is
\* written as a block (compactor.Write) and its metadata amended, and either
\* step may fail. outcome is "ok", "err" (nothing written) or
\* "errAfterWrite". For a head that has series but no committed sample the
\* compactor writes no block and returns the zero identifier without error,
\* so the metadata read that follows fails.
WriterFlush(wr, w, id, outcome) ==
    LET blk == [id |-> id, w |-> w, samples |-> wr.committed]
        wr2 == [wr EXCEPT !.flushCalls = @ + 1]
    IN  IF Len(wr.series) = 0
        THEN [wr |-> wr2, written |-> {}, ids |-> <<>>, err |-> NewErr("no series appended", w)]
        ELSE IF outcome = "err"
        THEN [wr |-> wr2, written |-> {}, ids |-> <<>>, err |-> NewErr("compactor write", w)]
        ELSE IF BagToSet(wr.committed) = {}
        THEN [wr |-> wr2, written |-> {}, ids |-> <<>>, err |-> NewErr("metadata", w)]
        ELSE IF outcome = "errAfterWrite"
        THEN [wr |-> wr2, written |-> {blk}, ids |-> <<>>, err |-> NewErr("metadata", w)]
        ELSE [wr |-> wr2, written |-> {blk}, ids |-> <<id>>, err |-> Nil]

\* TSDBWriter.Close: returns head.Close()'s error.
WriterClose(wr, w, ok) ==
    [wr |-> [wr EXCEPT !.closeCalls = @ + 1],
     err |-> IF ok THEN Nil ELSE NewErr("close", w)]

(* ---------------------------- MultiWriter ----------------------------- *)
\* The coordinator's state is passed around as mw = [blocks, activeAppenders, writers].
NewMultiWriter == [blocks |-> <<>>, activeAppenders |-> <<>>, writers |-> <<>>]

HeadHandle(w) == [kind |-> "head", w |-> w, err |-> Nil]
errAppender(e) == [kind |-> "err", w |-> 0, err |-> e]

\* The orders in which a Go range statement may visit the keys of a map.
RECURSIVE Orders(_)
Orders(S) ==
    IF S = {} THEN {<<>>}
    ELSE UNION {{<<k>> \o o : o \in Orders(S \ {k})} : k \in S}

\* Variant: the failing handle is kept in activeAppenders for the range.
getOrCreateKeepErr(mw, t, createOk) ==
    LET hash == RangeKey(t)
        w    == Len(mw.writers) + 1
        ea   == errAppender(Wrap(NewErr("create", 0), "new tsdb writer"))
    IN  IF hash \in DOMAIN mw.activeAppenders
        THEN [mw |-> mw, hash |-> hash, a |-> mw.activeAppenders[hash]]
        ELSE IF ~createOk
        THEN [mw |-> [mw EXCEPT !.activeAppenders = @ @@ (hash :> ea)], hash |-> hash, a |-> ea]
        ELSE [mw |-> [blocks |-> mw.blocks @@ (hash :> w),
                      activeAppenders |-> mw.activeAppenders @@ (hash :> HeadHandle(w)),
                      writers |-> Append(mw.writers, NewTSDBWriter)],
              hash |-> hash,
              a |-> HeadHandle(w)]

\* Variant: the new writer is put into blocks before the error is looked at.
getOrCreateEarlyRegister(mw, t, createOk) ==
    LET hash == RangeKey(t)
        w    == Len(mw.writers) + 1
    IN  IF hash \in DOMAIN mw.activeAppenders
        THEN [mw |-> mw, hash |-> hash, a |-> mw.activeAppenders[hash]]
        ELSE IF ~createOk
        THEN [mw |-> [mw EXCEPT !.blocks = @ @@ (hash :> w),
                                !.writers = Append(@, NewTSDBWriter)],
              hash |-> hash,
              a |-> errAppender(Wrap(NewErr("create", 0), "new tsdb writer"))]
        ELSE [mw |-> [blocks |-> mw.blocks @@ (hash :> w),
                      activeAppenders |-> mw.activeAppenders @@ (hash :> HeadHandle(w)),
                      writers |-> Append(mw.writers, NewTSDBWriter)],
              hash |-> hash,
              a |-> HeadHandle(w)]

\* Variant: a writer is created for every call, without the lookup.
getOrCreateAlwaysNew(mw, t, createOk) ==
    LET hash == RangeKey(t)
        w    == Len(mw.writers) + 1
    IN  IF ~createOk
        THEN [mw |-> mw, hash |-> hash,
              a |-> errAppender(Wrap(NewErr("create", 0), "new tsdb writer"))]
        ELSE [mw |-> [blocks |-> (hash :> w) @@ mw.blocks,
                      activeAppenders |-> (hash :> HeadHandle(w)) @@ mw.activeAppenders,
                      writers |-> Append(mw.writers, NewTSDBWriter)],
              hash |-> hash,
              a |-> HeadHandle(w)]

getOrCreate(mw, t, createOk) ==
    LET hash == RangeKey(t)
        w    == Len(mw.writers) + 1
    IN  IF hash \in DOMAIN mw.activeAppenders
        THEN [mw |-> mw, hash |-> hash, a |-> mw.activeAppenders[hash]]
        ELSE IF ~createOk
        THEN [mw |-> mw, hash |-> hash,
              a |-> errAppender(Wrap(NewErr("create", 0), "new tsdb writer"))]
        ELSE [mw |-> [blocks |-> mw.blocks @@ (hash :> w),
                      activeAppenders |-> mw.activeAppenders @@ (hash :> HeadHandle(w)),
                      writers |-> Append(mw.writers, NewTSDBWriter)],
              hash |-> hash,
              a |-> HeadHandle(w)]

\* a.Append(ref, l, t, v) on a handle: errAppender returns (0, a.err).
HandleAppend(mw, a, r, l, t, v, ok) ==
    IF a.kind = "err"
    THEN [mw |-> mw, ref |-> 0, err |-> a.err]
    ELSE LET res == HeadAppend(mw.writers[a.w], r, l, t, v, ok)
         IN  [mw |-> [mw EXCEPT !.writers[a.w] = res.wr],
              ref |-> res.ref,
              err |-> IF res.failed THEN NewErr("append", a.w) ELSE Nil]

\* a.AppendExemplar(ref, l, e) on a handle: the head accepts an exemplar only
\* for a series it has, and keeps no sample for it.
HandleAppendExemplar(mw, a, r, l, ok) ==
    IF a.kind = "err"
    THEN [mw |-> mw, ref |-> 0, err |-> a.err]
    ELSE LET series == mw.writers[a.w].series
             s      == IF r \in 1..Len(series) THEN r ELSE SeriesIndex(series, l)
         IN  IF ok /\ s <= Len(series)
             THEN [mw |-> mw, ref |-> s, err |-> Nil]
             ELSE [mw |-> mw, ref |-> 0, err |-> NewErr("append exemplar", a.w)]

\* MultiWriter.Append
MWAppend(mw, r, l, t, v, createOk, ok) ==
    LET g == getOrCreate(mw, t, createOk)
    IN  [hash |-> g.hash] @@ HandleAppend(g.mw, g.a, r, l, t, v, ok)

\* MultiWriter.AppendExemplar, routed by the exemplar's own timestamp ts
MWAppendExemplar(mw, r, l, ts, createOk, ok) ==
    LET g == getOrCreate(mw, ts, createOk)
    IN  [hash |-> g.hash] @@ HandleAppendExemplar(g.mw, g.a, r, l, ok)

\* a.Commit() on a handle, with the writers it changes.
HandleCommit(ws, a, ok) ==
    IF a.kind = "err"
    THEN [ws |-> ws, err |-> a.err]
    ELSE [ws |-> [ws EXCEPT ![a.w] = HeadCommit(@, ok)],
          err |-> IF ok THEN Nil ELSE NewErr("commit", a.w)]

\* Variant: the loop returns at the first handle whose Commit fails.
RECURSIVE CommitLoopShort(_, _, _, _)
CommitLoopShort(mw, order, fails, acc) ==
    IF order = <<>> \/ acc.merr # Nil THEN acc
    ELSE LET k == Head(order)
             r == HandleCommit(acc.ws, mw.activeAppenders[k], k \notin fails)
         IN  CommitLoopShort(mw, Tail(order), fails,
                             [ws |-> r.ws, merr |-> MultiAdd(acc.merr, r.err),
                              called |-> acc.called (+) SetToBag({k})])

\* The loop of MultiWriter.Commit over the keys still to visit; fails is the
\* set of keys whose handle's Commit fails; acc = [ws, merr, called].
RECURSIVE CommitLoop(_, _, _, _)
CommitLoop(mw, order, fails, acc) ==
    IF order = <<>> THEN acc
    ELSE LET k == Head(order)
             r == HandleCommit(acc.ws, mw.activeAppenders[k], k \notin fails)
         IN  CommitLoop(mw, Tail(order), fails,
                        [ws |-> r.ws, merr |-> MultiAdd(acc.merr, r.err),
                         called |-> acc.called (+) SetToBag({k})])

\* MultiWriter.Commit
MWCommit(mw, order, fails) ==
    LET r == CommitLoop(mw, order, fails, [ws |-> mw.writers, merr |-> Nil, called |-> EmptyBag])
    IN  [mw |-> [mw EXCEPT !.writers = r.ws], err |-> r.merr, called |-> r.called]

\* a.Rollback() on a handle.
HandleRollback(ws, a, ok) ==
    IF a.kind = "err"
    THEN [ws |-> ws, err |-> a.err]
    ELSE [ws |-> [ws EXCEPT ![a.w] = HeadRollback(@)],
          err |-> IF ok THEN Nil ELSE NewErr("rollback", a.w)]

\* Variant: the loop returns at the first handle whose Rollback fails.
RECURSIVE RollbackLoopShort(_, _, _, _)
RollbackLoopShort(mw, order, fails, acc) ==
    IF order = <<>> \/ acc.merr # Nil THEN acc
    ELSE LET k == Head(order)
             r == HandleRollback(acc.ws, mw.activeAppenders[k], k \notin fails)
         IN  RollbackLoopShort(mw, Tail(order), fails,
                               [ws |-> r.ws, merr |-> MultiAdd(acc.merr, r.err),
                                called |-> acc.called (+) SetToBag({k})])

\* The loop of MultiWriter.Rollback, as CommitLoop.
RECURSIVE RollbackLoop(_, _, _, _)
RollbackLoop(mw, order, fails, acc) ==
    IF order = <<>> THEN acc
    ELSE LET k == Head(order)
             r == HandleRollback(acc.ws, mw.activeAppenders[k], k \notin fails)
         IN  RollbackLoop(mw, Tail(order), fails,
                          [ws |-> r.ws, merr |-> MultiAdd(acc.merr, r.err),
                           called |-> acc.called (+) SetToBag({k})])

\* MultiWriter.Rollback
MWRollback(mw, order, fails) ==
    LET r == RollbackLoop(mw, order, fails, [ws |-> mw.writers, merr |-> Nil, called |-> EmptyBag])
    IN  [mw |-> [mw EXCEPT !.writers = r.ws], err |-> r.merr, called |-> r.called]

\* Variant: the loop goes on after a failing b.Flush() and returns the
\* first error at the end.
RECURSIVE FlushLoopAggregate(_, _, _, _)
FlushLoopAggregate(mw, order, outcome, acc) ==
    IF order = <<>> THEN (IF acc.err # Nil THEN [acc EXCEPT !.ids = <<>>] ELSE acc)
    ELSE LET k == Head(order)
             w == mw.blocks[k]
             r == WriterFlush(acc.ws[w], w, Cardinality(acc.disk) + 1, outcome[k])
         IN  FlushLoopAggregate(mw, Tail(order), outcome,
                 [ws |-> [acc.ws EXCEPT ![w] = r.wr],
                  disk |-> acc.disk \cup r.written,
                  ids |-> acc.ids \o r.ids,
                  err |-> IF acc.err # Nil THEN acc.err ELSE r.err,
                  called |-> Append(acc.called, k)])

\* The loop of MultiWriter.Flush: the first failing b.Flush() ends it with
\* (nil, err); acc = [ws, disk, ids, err, called]. Block identifiers are
\* numbered in the order the blocks reach the disk.
RECURSIVE FlushLoop(_, _, _, _)
FlushLoop(mw, order, outcome, acc) ==
    IF order = <<>> THEN acc
    ELSE LET k == Head(order)
             w == mw.blocks[k]
             r == WriterFlush(acc.ws[w], w, Cardinality(acc.disk) + 1, outcome[k])
             a == [ws |-> [acc.ws EXCEPT ![w] = r.wr],
                   disk |-> acc.disk \cup r.written,
                   ids |-> acc.ids \o r.ids,
                   err |-> r.err,
                   called |-> Append(acc.called, k)]
         IN  IF r.err # Nil
             THEN [a EXCEPT !.ids = <<>>]
             ELSE FlushLoop(mw, Tail(order), outcome, a)

\* Variant: a Flush that finds no writer fails as an empty writer does.
MWFlushRejectEmpty(mw, dsk, order, outcome) ==
    LET r == FlushLoop(mw, order, outcome,
                       [ws |-> mw.writers, disk |-> dsk, ids |-> <<>>, err |-> Nil,
                        called |-> <<>>])
    IN  IF DOMAIN mw.blocks = {}
        THEN [mw |-> mw, disk |-> dsk, ids |-> <<>>,
              err |-> NewErr("no series appended", 0), called |-> <<>>]
        ELSE [mw |-> [mw EXCEPT !.writers = r.ws], disk |-> r.disk, ids |-> r.ids,
              err |-> r.err, called |-> r.called]

\* MultiWriter.Flush
MWFlush(mw, dsk, order, outcome) ==
    LET r == FlushLoop(mw, order, outcome,
                       [ws |-> mw.writers, disk |-> dsk, ids |-> <<>>, err |-> Nil,
                        called |-> <<>>])
    IN  [mw |-> [mw EXCEPT !.writers = r.ws], disk |-> r.disk, ids |-> r.ids,
         err |-> r.err, called |-> r.called]

\* Variant: the loop returns at the first writer whose Close fails.
RECURSIVE CloseLoopShort(_, _, _, _)
CloseLoopShort(mw, order, fails, acc) ==
    IF order = <<>> \/ acc.merr # Nil THEN acc
    ELSE LET k == Head(order)
             w == mw.blocks[k]
             r == WriterClose(acc.ws[w], w, k \notin fails)
         IN  CloseLoopShort(mw, Tail(order), fails,
                            [ws |-> [acc.ws EXCEPT ![w] = r.wr],
                             merr |-> MultiAdd(acc.merr, r.err),
                             called |-> acc.called (+) SetToBag({k})])

\* The loop of MultiWriter.Close; fails is the set of keys whose writer's
\* Close fails; acc = [ws, merr, called].
RECURSIVE CloseLoop(_, _, _, _)
CloseLoop(mw, order, fails, acc) ==
    IF order = <<>> THEN acc
    ELSE LET k == Head(order)
             w == mw.blocks[k]
             r == WriterClose(acc.ws[w], w, k \notin fails)
         IN  CloseLoop(mw, Tail(order), fails,
                       [ws |-> [acc.ws EXCEPT ![w] = r.wr],
                        merr |-> MultiAdd(acc.merr, r.err),
                        called |-> acc.called (+) SetToBag({k})])

\* MultiWriter.Close
MWClose(mw, order, fails) ==
    LET r == CloseLoop(mw, order, fails, [ws |-> mw.writers, merr |-> Nil, called |-> EmptyBag])
    IN  [mw |-> [mw EXCEPT !.writers = r.ws], err |-> r.merr, called |-> r.called]

(* ---------------------------- state ----------------------------------- *)
MW == [blocks |-> blocks, activeAppenders |-> activeAppenders, writers |-> writers]

SetMW(mw) ==
    /\ blocks' = mw.blocks
    /\ activeAppenders' = mw.activeAppenders
    /\ writers' = mw.writers

NoOp ==
    [name |-> "none", t |-> 0, hash |-> [Start |-> 0, End |-> 0], fails |-> {},
     called |-> EmptyBag, calledSeq |-> <<>>, err |-> Nil, ids |-> <<>>, ref |-> 0,
     nDisk |-> 0, createFailed |-> FALSE, batchCreateFailed |-> FALSE,
     pendingCreateErr |-> FALSE]

InitState ==
    /\ blocks = <<>>
    /\ activeAppenders = <<>>
    /\ writers = <<>>
    /\ disk = {}
    /\ ref = 0
    /\ err = Nil
    /\ ids = <<>>
    /\ fed = EmptyBag
    /\ nRead = 0
    /\ routed = <<>>
    /\ trace = <<>>
    /\ lastOp = NoOp

\* Import is called with a fresh MultiWriter.
Init == InitState /\ pc = "loop"

\* A caller drives a fresh MultiWriter directly.
InitAPI == InitState /\ pc = "api"

(* ---------------------------- the calls ------------------------------- *)
\* lastOp is a record of the last call on the coordinator: its name and
\* arguments, the injected failures (fails), the handles or writers it
\* invoked (called: how often each key; calledSeq: in which order), its
\* results, whether NewTSDBWriter failed in it (createFailed), and whether
\* NewTSDBWriter failed in an append since the last Commit or Rollback
\* (pendingCreateErr; batchCreateFailed is its value when Commit was called).
CreateFails(t, createOk) == RangeKey(t) \notin DOMAIN activeAppenders /\ ~createOk

Route(rt, t, hash) ==
    LET e == <<[t |-> t, hash |-> hash]>>
    IN  IF Len(rt) = 0 THEN e ELSE <<rt[Len(rt)]>> \o e

\* The outcomes of NewTSDBWriter and of the handle's append that can matter
\* for a call with timestamp t: creation is attempted only for a new range,
\* and the handle's append only runs on a real handle.
AppendFaults(t) ==
    IF RangeKey(t) \in DOMAIN activeAppenders
    THEN {<<TRUE, TRUE>>, <<TRUE, FALSE>>}
    ELSE {<<TRUE, TRUE>>, <<TRUE, FALSE>>, <<FALSE, TRUE>>}

\* Each Do... performs one call on the coordinator and records it in lastOp.
DoAppend(r, l, t, v, createOk, ok) ==
    LET res == MWAppend(MW, r, l, t, v, createOk, ok)
    IN  /\ SetMW(res.mw)
        /\ routed' = Route(routed, t, res.hash)
        /\ lastOp' = [NoOp EXCEPT !.name = "Append", !.t = t, !.hash = res.hash,
                                  !.err = res.err, !.ref = res.ref,
                                  !.createFailed = CreateFails(t, createOk),
                                  !.pendingCreateErr =
                                      lastOp.pendingCreateErr \/ CreateFails(t, createOk)]
        /\ UNCHANGED disk

DoAppendExemplar(r, l, ts, createOk, ok) ==
    LET res == MWAppendExemplar(MW, r, l, ts, createOk, ok)
    IN  /\ SetMW(res.mw)
        /\ routed' = Route(routed, ts, res.hash)
        /\ lastOp' = [NoOp EXCEPT !.name = "AppendExemplar", !.t = ts, !.hash = res.hash,
                                  !.err = res.err, !.ref = res.ref,
                                  !.createFailed = CreateFails(ts, createOk),
                                  !.pendingCreateErr =
                                      lastOp.pendingCreateErr \/ CreateFails(ts, createOk)]
        /\ UNCHANGED disk

DoCommit(order, fails) ==
    LET res == MWCommit(MW, order, fails)
    IN  /\ SetMW(res.mw)
        /\ lastOp' = [NoOp EXCEPT !.name = "Commit", !.fails = fails,
                                  !.called = res.called, !.err = res.err,
                                  !.batchCreateFailed = lastOp.pendingCreateErr]
        /\ UNCHANGED <<disk, routed>>

DoRollback(order, fails) ==
    LET res == MWRollback(MW, order, fails)
    IN  /\ SetMW(res.mw)
        /\ lastOp' = [NoOp EXCEPT !.name = "Rollback", !.fails = fails,
                                  !.called = res.called, !.err = res.err]
        /\ UNCHANGED <<disk, routed>>

\* The keys whose writer's Flush fails under outcome, in the present state.
FlushFails(outcome) ==
    {k \in DOMAIN blocks :
        \/ Len(writers[blocks[k]].series) = 0
        \/ BagToSet(writers[blocks[k]].committed) = {}
        \/ outcome[k] # "ok"}

DoFlush(order, outcome) ==
    LET res == MWFlush(MW, disk, order, outcome)
    IN  /\ SetMW(res.mw)
        /\ disk' = res.disk
        /\ lastOp' = [NoOp EXCEPT !.name = "Flush",
                                  !.fails = FlushFails(outcome), !.nDisk = Cardinality(disk),
                                  !.calledSeq = res.called, !.err = res.err, !.ids = res.ids,
                                  !.pendingCreateErr = lastOp.pendingCreateErr]
        /\ UNCHANGED routed

DoClose(order, fails) ==
    LET res == MWClose(MW, order, fails)
    IN  /\ SetMW(res.mw)
        /\ lastOp' = [NoOp EXCEPT !.name = "Close", !.fails = fails,
                                  !.called = res.called, !.err = res.err,
                                  !.pendingCreateErr = lastOp.pendingCreateErr]
        /\ UNCHANGED <<disk, routed>>

FlushOutcomes == {"ok", "err", "errAfterWrite"}

(* ---------------------------- Import ---------------------------------- *)
importVars == <<pc, ref, err, ids, fed, nRead, trace>>

\* An element of trace: ev is "EOF", "parseErr" or "noTs" for what p.Next()
\* gave, or the call made on the target, "Append", "Commit", "Flush" or
\* "Close", with "Err" appended when the call returned an error; an append
\* comes with its labels, the reference passed and returned, and the range.
Ev(name) == [ev |-> name, l |-> "", refIn |-> 0, refOut |-> 0, hash |-> NoOp.hash]

Called(name, e) == Ev(IF e = Nil THEN name ELSE name \o "Err")

\* Variant: the close is not deferred but made on the successful path only.
ImportReturnNoDefer(i, e) ==
    /\ ids' = i
    /\ err' = e
    /\ pc' = IF e = Nil THEN "close" ELSE "done"

\* A return statement of Import: the named results are set and the deferred
\* function (the close) is what is left to run.
ImportReturn(i, e) ==
    /\ ids' = i
    /\ err' = e
    /\ pc' = "close"

\* p.Next() returns io.EOF: the loop is left.
ImportNextEOF ==
    /\ pc = "loop"
    /\ pc' = "commit"
    /\ trace' = Append(trace, Ev("EOF"))
    /\ UNCHANGED <<blocks, activeAppenders, writers, disk, ref, err, ids, fed, nRead,
                   routed, lastOp>>

\* Variant: an error of the parser ends the loop as end-of-stream does.
ImportNextParseErrorBreak ==
    /\ pc = "loop"
    /\ pc' = "commit"
    /\ trace' = Append(trace, Ev("parseErr"))
    /\ UNCHANGED <<blocks, activeAppenders, writers, disk, ref, err, ids, fed, nRead,
                   routed, lastOp>>

\* p.Next() returns another error.
ImportNextParseError ==
    /\ pc = "loop"
    /\ ImportReturn(<<>>, Wrap(NewErr("parser", 0), "parse"))
    /\ trace' = Append(trace, Ev("parseErr"))
    /\ UNCHANGED <<blocks, activeAppenders, writers, disk, ref, fed, nRead, routed, lastOp>>

\* p.Next() returns an entry that is no series: continue.
ImportNextSkip ==
    /\ pc = "loop"
    /\ nRead < MaxEntries
    /\ nRead' = nRead + 1
    /\ UNCHANGED <<blocks, activeAppenders, writers, disk, pc, ref, err, ids, fed,
                   routed, trace, lastOp>>

\* Variant: a series entry without a timestamp is skipped.
ImportNextNoTimestampContinue ==
    /\ pc = "loop"
    /\ nRead < MaxEntries
    /\ nRead' = nRead + 1
    /\ trace' = Append(trace, Ev("noTs"))
    /\ UNCHANGED <<blocks, activeAppenders, writers, disk, pc, ref, err, ids, fed,
                   routed, lastOp>>

\* A series entry without a timestamp.
ImportNextNoTimestamp ==
    /\ pc = "loop"
    /\ nRead < MaxEntries
    /\ nRead' = nRead + 1
    /\ ImportReturn(<<>>, NewErr("expected timestamp", 0))
    /\ trace' = Append(trace, Ev("noTs"))
    /\ UNCHANGED <<blocks, activeAppenders, writers, disk, ref, fed, routed, lastOp>>

\* A series entry with a timestamp: ref, err = app.Append(ref, l, *ts, v).
ImportNextSeries ==
    /\ pc = "loop"
    /\ nRead < MaxEntries
    /\ \E l \in LabelSets, t \in Timestamps, v \in Values :
        \E f \in AppendFaults(t) :
          /\ DoAppend(ref, l, t, v, f[1], f[2])
          /\ fed' = fed (+) SetToBag({<<l, t, v>>})
          /\ nRead' = nRead + 1
          /\ ref' = lastOp'.ref
          /\ trace' = Append(trace, [Called("Append", lastOp'.err) EXCEPT
                                         !.l = l, !.refIn = ref, !.refOut = lastOp'.ref,
                                         !.hash = lastOp'.hash])
          /\ IF lastOp'.err # Nil
             THEN ImportReturn(<<>>, Wrap(lastOp'.err, "add sample"))
             ELSE UNCHANGED <<pc, err, ids>>

\* Variant: the result of app.Commit() is not looked at.
ImportCommitIgnoreErr ==
    /\ pc = "commit"
    /\ \E order \in Orders(DOMAIN activeAppenders), fails \in SUBSET DOMAIN activeAppenders :
          /\ DoCommit(order, fails)
          /\ trace' = Append(trace, Called("Commit", lastOp'.err))
          /\ pc' = "flush"
    /\ UNCHANGED <<ref, err, ids, fed, nRead>>

\* app.Commit()
ImportCommit ==
    /\ pc = "commit"
    /\ \E order \in Orders(DOMAIN activeAppenders), fails \in SUBSET DOMAIN activeAppenders :
          /\ DoCommit(order, fails)
          /\ trace' = Append(trace, Called("Commit", lastOp'.err))
          /\ IF lastOp'.err # Nil
             THEN ImportReturn(<<>>, Wrap(lastOp'.err, "commit"))
             ELSE pc' = "flush" /\ UNCHANGED <<err, ids>>
    /\ UNCHANGED <<ref, fed, nRead>>

\* ids, err = w.Flush()
ImportFlush ==
    /\ pc = "flush"
    /\ \E order \in Orders(DOMAIN blocks), outcome \in [DOMAIN blocks -> FlushOutcomes] :
          /\ DoFlush(order, outcome)
          /\ trace' = Append(trace, Called("Flush", lastOp'.err))
          /\ IF lastOp'.err # Nil
             THEN ImportReturn(<<>>, Wrap(lastOp'.err, "flush"))
             ELSE ImportReturn(lastOp'.ids, Nil)
    /\ UNCHANGED <<ref, fed, nRead>>

\* Variant: the close error is kept only when nothing failed before.
ImportCloseKeepFirst ==
    /\ pc = "close"
    /\ \E order \in Orders(DOMAIN blocks), fails \in SUBSET DOMAIN blocks :
          /\ DoClose(order, fails)
          /\ err' = IF err # Nil THEN err ELSE lastOp'.err
          /\ trace' = Append(trace, Called("Close", lastOp'.err))
    /\ pc' = "done"
    /\ UNCHANGED <<ref, ids, fed, nRead>>

\* The deferred function: err and w.Close()'s error are merged into err.
ImportClose ==
    /\ pc = "close"
    /\ \E order \in Orders(DOMAIN blocks), fails \in SUBSET DOMAIN blocks :
          /\ DoClose(order, fails)
          /\ err' = MultiAdd(MultiAdd(Nil, err), lastOp'.err)
          /\ trace' = Append(trace, Called("Close", lastOp'.err))
    /\ pc' = "done"
    /\ UNCHANGED <<ref, ids, fed, nRead>>

Next ==
    \/ ImportNextEOF
    \/ ImportNextParseError
    \/ ImportNextSkip
    \/ ImportNextNoTimestamp
    \/ ImportNextSeries
    \/ ImportCommit
    \/ ImportFlush
    \/ ImportClose

Spec == Init /\ [][Next]_vars

(* ---------------------------- direct calls ---------------------------- *)
\* A caller that uses the coordinator's methods in any order.
CallAppend ==
    /\ pc = "api" /\ nRead < MaxOps
    /\ \E r \in Refs, l \in LabelSets, t \in Timestamps, v \in Values :
        \E f \in AppendFaults(t) :
          DoAppend(r, l, t, v, f[1], f[2])
    /\ nRead' = nRead + 1
    /\ UNCHANGED <<pc, ref, err, ids, fed, trace>>

CallAppendExemplar ==
    /\ pc = "api" /\ nRead < MaxOps
    /\ \E r \in Refs, l \in LabelSets, ts \in Timestamps :
        \E f \in AppendFaults(ts) :
          DoAppendExemplar(r, l, ts, f[1], f[2])
    /\ nRead' = nRead + 1
    /\ UNCHANGED <<pc, ref, err, ids, fed, trace>>

CallCommit ==
    /\ pc = "api" /\ nRead < MaxOps
    /\ \E order \in Orders(DOMAIN activeAppenders), fails \in SUBSET DOMAIN activeAppenders :
          DoCommit(order, fails)
    /\ nRead' = nRead + 1
    /\ UNCHANGED <<pc, ref, err, ids, fed, trace>>

CallRollback ==
    /\ pc = "api" /\ nRead < MaxOps
    /\ \E order \in Orders(DOMAIN activeAppenders), fails \in SUBSET DOMAIN activeAppenders :
          DoRollback(order, fails)
    /\ nRead' = nRead + 1
    /\ UNCHANGED <<pc, ref, err, ids, fed, trace>>

CallFlush ==
    /\ pc = "api" /\ nRead < MaxOps
    /\ \E order \in Orders(DOMAIN blocks), outcome \in [DOMAIN blocks -> FlushOutcomes] :
          DoFlush(order, outcome)
    /\ nRead' = nRead + 1
    /\ UNCHANGED <<pc, ref, err, ids, fed, trace>>

CallClose ==
    /\ pc = "api" /\ nRead < MaxOps
    /\ \E order \in Orders(DOMAIN blocks), fails \in SUBSET DOMAIN blocks :
          DoClose(order, fails)
    /\ nRead' = nRead + 1
    /\ UNCHANGED <<pc, ref, err, ids, fed, trace>>

NextAPI ==
    \/ CallAppend
    \/ CallAppendExemplar
    \/ CallCommit
    \/ CallRollback
    \/ CallFlush
    \/ CallClose

SpecAPI == InitAPI /\ [][NextAPI]_vars

(* ---------------------------- properties ------------------------------ *)
\* The samples of a set of blocks, as one bag.
RECURSIVE BlockSamples(_)
BlockSamples(bs) ==
    IF bs = {} THEN EmptyBag
    ELSE LET b == CHOOSE x \in bs : TRUE
         IN  b.samples (+) BlockSamples(bs \ {b})

\* The range key under which writer w is registered.
KeyOf(w) == CHOOSE k \in DOMAIN blocks : blocks[k] = w

SeqToSet(q) == {q[i] : i \in 1..Len(q)}

\* C1: for every timestamp t the coordinator routes, the range [Start, End)
\* it computes satisfies Start <= t < End and End - Start = Width.
C1_RangeContainsTimestamp ==
    \A i \in 1..Len(routed) :
        /\ routed[i].hash.Start <= routed[i].t
        /\ routed[i].t < routed[i].hash.End
        /\ routed[i].hash.End - routed[i].hash.Start = Width

\* C2: two routed timestamps get the same range key if and only if their
\* floor quotients by the width are equal (\div is floor division).
C2_SameRangeIffSameFloor ==
    \A i, j \in 1..Len(routed) :
        (routed[i].hash = routed[j].hash) <=> (routed[i].t \div Width = routed[j].t \div Width)

\* C3: when Import ends without error, the samples held by the blocks it
\* returns are, as a bag of (labels, timestamp, value), exactly the samples
\* the source fed in, each in the block of the range its timestamp lies in.
C3_NoLostSamples ==
    (pc = "done" /\ err = Nil) =>
        LET produced == {b \in disk : b.id \in SeqToSet(ids)}
        IN  /\ BlockSamples(produced) = fed
            /\ \A b \in produced : \A smp \in BagToSet(b.samples) :
                   KeyOf(b.w).Start <= smp[2] /\ smp[2] < KeyOf(b.w).End

\* C4: close is invoked at most once on every writer created, and exactly
\* once on each of them by the time Import has returned, whatever failed.
C4_CloseAlways ==
    /\ \A w \in 1..Len(writers) : writers[w].closeCalls <= 1
    /\ pc = "done" => \A w \in 1..Len(writers) : writers[w].closeCalls = 1

\* Import has returned with an error after creating two writers, both closed.
C4_Witness ==
    /\ pc = "done" /\ err # Nil
    /\ Len(writers) >= 2
    /\ \A w \in 1..Len(writers) : writers[w].closeCalls = 1

\* C5: Import returns either the identifiers of all blocks produced and a
\* nil error, or a non-nil error and no identifier.
C5_IdsOrError ==
    pc = "done" =>
        \/ err = Nil /\ SeqToSet(ids) = {b.id : b \in disk}
        \/ err # Nil /\ ids = <<>>

\* C6: a coordinator Commit calls Commit exactly once on every handle of
\* activeAppenders, returns nil iff none of them failed, and otherwise
\* returns an error that carries the error of every failing handle.
C6_CommitAggregates ==
    lastOp.name = "Commit" =>
        /\ lastOp.called = SetToBag(DOMAIN activeAppenders)
        /\ (lastOp.err = Nil) <=> (lastOp.fails = {})
        /\ Causes(lastOp.err) = {[op |-> "commit", w |-> blocks[k]] : k \in lastOp.fails}

\* A Commit over at least two handles of which some, but not all, failed.
C6_Witness ==
    /\ lastOp.name = "Commit"
    /\ Cardinality(DOMAIN activeAppenders) >= 2
    /\ lastOp.fails # {} /\ lastOp.fails # DOMAIN activeAppenders
    /\ lastOp.err # Nil

\* C7 as claimed: when NewTSDBWriter fails in an append, the append returns
\* no error and a failing handle is kept for the range, and the Commit that
\* ends the batch returns the creation failure.
C7_CreationFailureDeferred ==
    /\ lastOp.createFailed =>
           /\ lastOp.err = Nil
           /\ lastOp.hash \in DOMAIN activeAppenders
           /\ activeAppenders[lastOp.hash].kind = "err"
    /\ (lastOp.name = "Commit" /\ lastOp.batchCreateFailed) =>
           [op |-> "create", w |-> 0] \in Causes(lastOp.err)

\* C7 as amended: when NewTSDBWriter fails in an append, the append itself
\* returns the creation error (wrapped "new tsdb writer") and reference 0,
\* nothing is registered for the range, and no Commit returns a creation
\* failure.
C7_CreationFailureReturned ==
    /\ lastOp.createFailed =>
           /\ lastOp.err = Wrap(NewErr("create", 0), "new tsdb writer")
           /\ lastOp.ref = 0
           /\ lastOp.hash \notin DOMAIN activeAppenders
           /\ lastOp.hash \notin DOMAIN blocks
    /\ lastOp.name = "Commit" => [op |-> "create", w |-> 0] \notin Causes(lastOp.err)
    /\ \A k \in DOMAIN activeAppenders : activeAppenders[k].kind = "head"

\* A creation failure in an append made after another range got its writer.
C7_Witness ==
    /\ lastOp.name = "Append" /\ lastOp.createFailed
    /\ DOMAIN blocks # {}

\* C8: a coordinator Flush calls Flush on the writers one after another and
\* stops at the first that fails, returning that writer's error and no
\* identifier, while the blocks written by the writers before it are on
\* disk; when no writer fails, every writer is flushed exactly once and the
\* result is the identifiers of their blocks, in the order of the calls.
C8_FlushFailFast ==
    lastOp.name = "Flush" =>
        LET c == lastOp.calledSeq
            n == Len(c)
            Written(i) == \E b \in disk : b.id = lastOp.nDisk + i /\ b.w = blocks[c[i]]
        IN  /\ \A i \in 1..n : c[i] \in DOMAIN blocks
            /\ \A i, j \in 1..n : i # j => c[i] # c[j]
            /\ \A i \in 1..n : writers[blocks[c[i]]].flushCalls >= 1
            /\ \A i \in 1..(n - 1) : c[i] \notin lastOp.fails /\ Written(i)
            /\ lastOp.err # Nil =>
                   /\ n >= 1 /\ c[n] \in lastOp.fails
                   /\ lastOp.ids = <<>>
                   /\ {x.w : x \in lastOp.err} = {blocks[c[n]]}
            /\ lastOp.err = Nil =>
                   /\ SeqToSet(c) = DOMAIN blocks
                   /\ lastOp.ids = [i \in 1..n |-> lastOp.nDisk + i]
                   /\ \A i \in 1..n : Written(i)
            /\ (lastOp.err = Nil) <=> (lastOp.fails = {})

\* A Flush over two writers whose second call failed: the block of the
\* writer flushed first is on disk.
C8_Witness ==
    /\ lastOp.name = "Flush" /\ lastOp.err # Nil
    /\ Len(lastOp.calledSeq) = 2
    /\ lastOp.ids = <<>>
    /\ \E b \in disk : b.w = blocks[lastOp.calledSeq[1]]

\* C9: a coordinator Close calls Close exactly once on every writer of
\* blocks, returns nil iff none of them failed, and otherwise returns an
\* error that carries the error of every failing writer.
C9_CloseAggregates ==
    lastOp.name = "Close" =>
        /\ lastOp.called = SetToBag(DOMAIN blocks)
        /\ (lastOp.err = Nil) <=> (lastOp.fails = {})
        /\ Causes(lastOp.err) = {[op |-> "close", w |-> blocks[k]] : k \in lastOp.fails}

\* A Close over at least two writers of which some, but not all, failed.
C9_Witness ==
    /\ lastOp.name = "Close"
    /\ Cardinality(DOMAIN blocks) >= 2
    /\ lastOp.fails # {} /\ lastOp.fails # DOMAIN blocks
    /\ lastOp.err # Nil

\* C10: the two maps have the same keys, and the handle under a key is the
\* appender of the writer under that key.
C10_MapsAgree ==
    /\ DOMAIN activeAppenders = DOMAIN blocks
    /\ \A k \in DOMAIN blocks :
           /\ blocks[k] \in 1..Len(writers)
           /\ activeAppenders[k] = HeadHandle(blocks[k])
    /\ \A k1, k2 \in DOMAIN blocks : k1 # k2 => blocks[k1] # blocks[k2]

\* A range is registered, the creation of a writer for another one failed
\* in an append, and the coordinator was closed.
C10_Witness ==
    /\ Cardinality(DOMAIN blocks) = 1
    /\ lastOp.name = "Close" /\ lastOp.pendingCreateErr


(* ------------------------- Import, continued -------------------------- *)
\* The positions of trace that hold an event of one of the given names.
Events(names) == {i \in 1..Len(trace) : trace[i].ev \in names}

HasEv(name) == Events({name}) # {}

\* The floor bucket of a timestamp (\div is floor division).
Bucket(t) == t \div Width

\* The samples fed in whose timestamp lies in bucket b, as a bag.
FedIn(b) ==
    LET S == {s \in BagToSet(fed) : Bucket(s[2]) = b}
    IN  [s \in S |-> fed[s]]

\* C11: when Import ends without error, it returns exactly one block
\* identifier per floor bucket touched by the samples fed in, and for each
\* such bucket a returned block holds exactly the samples of that bucket.
C11_OneBlockPerBucket ==
    (pc = "done" /\ err = Nil) =>
        LET produced == {b \in disk : b.id \in SeqToSet(ids)}
            touched  == {Bucket(s[2]) : s \in BagToSet(fed)}
        IN  /\ Len(ids) = Cardinality(touched)
            /\ Cardinality(produced) = Cardinality(touched)
            /\ \A b \in touched : \E blk \in produced : blk.samples = FedIn(b)

\* C12: once a series entry without a timestamp was read, Import is
\* returning the missing-timestamp error, that entry was not appended (every
\* append made is one of an entry that had a timestamp), commit and flush
\* were and are never invoked, and no block exists.
C12_MissingTimestampAborts ==
    HasEv("noTs") =>
        /\ pc \in {"close", "done"}
        /\ [op |-> "expected timestamp", w |-> 0] \in Causes(err)
        /\ Events({"Commit", "CommitErr", "Flush", "FlushErr"}) = {}
        /\ Cardinality(Events({"Append", "AppendErr"})) = BagCardinality(fed)
        /\ trace[Len(trace)].ev \in {"noTs", "Close", "CloseErr"}
        /\ disk = {}
        /\ ids = <<>>
        /\ \A w \in 1..Len(writers) : BagToSet(writers[w].committed) = {}

\* Import has returned after a valid entry was appended and the next entry
\* had no timestamp.
C12_Witness ==
    /\ pc = "done"
    /\ HasEv("noTs")
    /\ HasEv("Append")
    /\ BagCardinality(fed) = 1

\* C13: once the parser returned an error other than end-of-stream, Import
\* is returning that error, commit and flush were and are never invoked, no
\* block exists and no sample appended so far has entered a head.
C13_ParseErrorAborts ==
    HasEv("parseErr") =>
        /\ pc \in {"close", "done"}
        /\ [op |-> "parser", w |-> 0] \in Causes(err)
        /\ Events({"Commit", "CommitErr", "Flush", "FlushErr"}) = {}
        /\ trace[Len(trace)].ev \in {"parseErr", "Close", "CloseErr"}
        /\ disk = {}
        /\ ids = <<>>
        /\ \A w \in 1..Len(writers) : BagToSet(writers[w].committed) = {}

\* Import has returned after two valid entries were appended and the parser
\* then failed.
C13_Witness ==
    /\ pc = "done"
    /\ HasEv("parseErr")
    /\ Cardinality(Events({"Append"})) = 2

\* C14: the error Import returns is the earlier error and the close error
\* merged: both are contained in it, and when one of them is nil it is the
\* other one.
C14_CloseErrorMerged ==
    [][(pc = "close" /\ pc' = "done") =>
          /\ lastOp'.name = "Close"
          /\ err \subseteq err'
          /\ lastOp'.err \subseteq err'
          /\ err' \subseteq err \cup lastOp'.err
          /\ (err = Nil => err' = lastOp'.err)
          /\ (lastOp'.err = Nil => err' = err)]_vars

\* Import has returned after an earlier failure and a failing close, with
\* both errors in its result.
C14_Witness ==
    /\ pc = "done"
    /\ lastOp.name = "Close"
    /\ lastOp.err # Nil
    /\ lastOp.err \subseteq err
    /\ err # lastOp.err
    /\ \E i \in Events({"parseErr", "noTs", "AppendErr", "CommitErr", "FlushErr"}) : TRUE


(* ----------------------- coordinator, continued ----------------------- *)
\* C15: a writer that never received an append fails Flush with the
\* empty-builder error and writes nothing; and every writer of the
\* coordinator that holds no sample when the coordinator's Flush reaches it
\* ends that Flush with the empty-builder error and without a block.
C15_EmptyBuilderRejected ==
    /\ WriterFlush(NewTSDBWriter, 1, 1, "ok").err = NewErr("no series appended", 1)
    /\ WriterFlush(NewTSDBWriter, 1, 1, "ok").written = {}
    /\ lastOp.name = "Flush" =>
           \A i \in 1..Len(lastOp.calledSeq) :
               LET w == blocks[lastOp.calledSeq[i]]
               IN  BagToSet(writers[w].committed) = {} =>
                       /\ i = Len(lastOp.calledSeq)
                       /\ Causes(lastOp.err) = {[op |-> "no series appended", w |-> w]}
                       /\ lastOp.ids = <<>>
                       /\ ~\E b \in disk : b.w = w

\* C16: a coordinator Rollback calls Rollback exactly once on every handle
\* of activeAppenders, whichever of them fail, so that no writer keeps a
\* pending sample; it returns nil iff none of them failed, and otherwise an
\* error that carries the error of every failing handle.
C16_RollbackAggregates ==
    lastOp.name = "Rollback" =>
        /\ lastOp.called = SetToBag(DOMAIN activeAppenders)
        /\ \A w \in 1..Len(writers) : BagToSet(writers[w].pending) = {}
        /\ (lastOp.err = Nil) <=> (lastOp.fails = {})
        /\ Causes(lastOp.err) = {[op |-> "rollback", w |-> blocks[k]] : k \in lastOp.fails}

\* A Rollback over at least two handles of which some, but not all, failed.
C16_Witness ==
    /\ lastOp.name = "Rollback"
    /\ Cardinality(DOMAIN activeAppenders) >= 2
    /\ lastOp.fails # {} /\ lastOp.fails # DOMAIN activeAppenders
    /\ lastOp.err # Nil


(* ------------------------ order and frame ----------------------------- *)
AppendEvs == {"Append", "AppendErr"}
CommitEvs == {"Commit", "CommitErr"}
FlushEvs  == {"Flush", "FlushErr"}
CloseEvs  == {"Close", "CloseErr"}

\* C17: in the sequence of calls Import makes, every append precedes the
\* commit; there is at most one commit, made right after the clean
\* end-of-stream and only if no append failed; at most one flush, made right
\* after a successful commit; and the close is the last call, made once.
C17_CallOrder ==
    /\ \A i \in Events(AppendEvs) : \A j \in Events(CommitEvs \cup FlushEvs \cup CloseEvs) : i < j
    /\ \A i \in Events({"AppendErr"}) : \A j \in (i + 1)..Len(trace) : trace[j].ev \in CloseEvs
    /\ Cardinality(Events(CommitEvs)) <= 1
    /\ \A i \in Events(CommitEvs) :
           /\ i > 1 /\ trace[i - 1].ev = "EOF"
           /\ \A j \in 1..(i - 2) : trace[j].ev = "Append"
    /\ Cardinality(Events(FlushEvs)) <= 1
    /\ \A i \in Events(FlushEvs) : i > 1 /\ trace[i - 1].ev = "Commit"
    /\ Cardinality(Events(CloseEvs)) <= 1
    /\ \A i \in Events(CloseEvs) : i = Len(trace)
    /\ (pc = "done") <=> (Events(CloseEvs) # {})
    /\ Events({"AppendErr", "CommitErr"}) # {} => Events(FlushEvs) = {}

\* Import has returned after two appends, the commit, the flush and the
\* close, in this order.
C17_Witness ==
    /\ pc = "done"
    /\ Len(trace) = 6
    /\ trace[1].ev = "Append" /\ trace[2].ev = "Append" /\ trace[3].ev = "EOF"
    /\ trace[4].ev = "Commit" /\ trace[5].ev = "Flush" /\ trace[6].ev \in CloseEvs

\* C18: the reference Import passes to an append is 0 or a reference that
\* an earlier successful append returned for the same label set in the same
\* range.
C18_RefOfSameSeries ==
    \A i \in Events(AppendEvs) :
        trace[i].refIn # 0 =>
            \E j \in 1..(i - 1) :
                /\ trace[j].ev = "Append"
                /\ trace[j].l = trace[i].l
                /\ trace[j].hash = trace[i].hash
                /\ trace[j].refOut = trace[i].refIn

\* C19: every step keeps each entry of blocks and of activeAppenders as it
\* is; Commit, Rollback, Flush and Close leave both maps and the number of
\* writers unchanged; an append adds at most one entry, under the range of
\* its timestamp and only if that range had none, and creates at most one
\* writer, so that there is one writer per range.
C19_MapsOnlyGrow ==
    [][/\ \A k \in DOMAIN blocks : k \in DOMAIN blocks' /\ blocks'[k] = blocks[k]
       /\ \A k \in DOMAIN activeAppenders :
              k \in DOMAIN activeAppenders' /\ activeAppenders'[k] = activeAppenders[k]
       /\ lastOp'.name \in {"Commit", "Rollback", "Flush", "Close"} =>
              /\ blocks' = blocks
              /\ activeAppenders' = activeAppenders
              /\ Len(writers') = Len(writers)
       /\ lastOp'.name \in {"Append", "AppendExemplar"} =>
              /\ DOMAIN blocks' \ DOMAIN blocks \subseteq {lastOp'.hash}
              /\ DOMAIN activeAppenders' \ DOMAIN activeAppenders \subseteq {lastOp'.hash}
              /\ Len(writers') - Len(writers) = Cardinality(DOMAIN blocks' \ DOMAIN blocks)
              /\ lastOp'.hash \in DOMAIN blocks =>
                     blocks' = blocks /\ activeAppenders' = activeAppenders
       /\ Len(writers') = Cardinality(DOMAIN blocks')
       /\ \A k1, k2 \in DOMAIN blocks' : blocks'[k1] = blocks'[k2] => k1 = k2]_vars

\* Two appends went to one range: the second reused the writer and handle of
\* the first, after a Commit in between.
C19_Witness ==
    /\ lastOp.name = "Append" /\ lastOp.err = Nil
    /\ Len(writers) = 1 /\ DOMAIN blocks = {lastOp.hash}
    /\ BagCardinality(writers[1].committed) = 1
    /\ BagCardinality(writers[1].pending) = 1

\* C20: a coordinator Flush that finds no writer calls no writer's Flush and
\* returns no identifier and a nil error; an Import whose source yields no
\* series entry makes a successful commit and flush and returns no
\* identifier and no error; a single writer without series fails its Flush.
C20_EmptyCoordinatorFlush ==
    /\ (lastOp.name = "Flush" /\ DOMAIN blocks = {}) =>
           /\ lastOp.err = Nil
           /\ lastOp.ids = <<>>
           /\ lastOp.calledSeq = <<>>
    /\ (Events({"EOF"}) # {} /\ Events(AppendEvs) = {}) =>
           /\ pc = "flush" => trace[Len(trace)].ev = "Commit"
           /\ pc = "close" => trace[Len(trace)].ev = "Flush"
           /\ pc = "done" =>
                  /\ Events({"Commit"}) # {} /\ Events({"Flush"}) # {}
                  /\ ids = <<>>
                  /\ disk = {}
                  /\ err = lastOp.err
                  /\ lastOp.name = "Close" /\ lastOp.fails = {} /\ lastOp.err = Nil
    /\ WriterFlush(NewTSDBWriter, 1, 1, "ok").err # Nil

\* Import has returned without error and without identifiers from a source
\* that held non-series entries only.
C20_Witness ==
    /\ pc = "done"
    /\ nRead > 0
    /\ Events(AppendEvs) = {}
    /\ Events({"Flush"}) # {}
    /\ err = Nil /\ ids = <<>>

====
